---- MODULE Spec2Model ----
(***************************************************************************)
(* Timesheet workflow of backend/server.py: the handlers save_timesheet,   *)
(* submit_timesheet, approve_timesheet, reject_timesheet and               *)
(* get_timesheet_by_week over the db.timesheets collection.                *)
(*                                                                         *)
(* Every handler is an async function: it suspends at each awaited store   *)
(* call, so the find_one and the update_one / insert_one of one request    *)
(* are separate atomic steps and the steps of different requests           *)
(* interleave.  A step of the model is one store call together with the    *)
(* synchronous code of the handler around it: a Find step is the handler   *)
(* up to the result of its find_one (and its early raise), a Write step is *)
(* the rest of the handler with its update_one / insert_one.               *)
(***************************************************************************)
EXTENDS Integers, Sequences, FiniteSets, Bags, TLC

\* ------------------------------------------------------------- bounds

\* Requests the API receives in one behaviour.
MaxRequests == 3

\* Requests that may be suspended between their find_one and their write.
MaxInFlight == 2

\* ------------------------------------------------------------- inputs

\* db.users as get_current_user reads it: one identity of each role.
Users ==
    [e1 |-> [email |-> "e1@example.com", role |-> "Employee"],
     m1 |-> [email |-> "m1@example.com", role |-> "Manager"],
     a1 |-> [email |-> "a1@example.com", role |-> "Admin"]]

\* User.id of the identities get_current_user resolves.
UserIds == DOMAIN Users

\* user_id values Save payloads and GetByWeek queries carry.
TargetUserIds == {"e1", "m1"}

\* week_start_date strings GetByWeek queries carry.
Weeks == {"2024-01-01", "2024-01-08"}

\* week_start_date strings Save payloads carry.
PayloadWeeks == {"2024-01-01"}

\* An Optional[datetime] that is None; datetime.now() is always >= 1.
NoTime == 0

\* An Optional[str] that is None.
None == "None"

\* A DailyEntry.
Entry(d, h) == [day_index |-> d, hours |-> h, notes |-> ""]

\* A TimesheetRow with the default location.
Row(es) == [project_id |-> "p1", sub_project_id |-> "s1", entries |-> es,
            location |-> "Remote"]

\* What a Save payload carries besides its key: rows of 8 hours Monday to
\* Friday (a total of 40, the threshold submit_timesheet tests) with every
\* other field at the Timesheet model's default, and no rows (a total below
\* the threshold) with every other field set by the caller.
PayloadBodies ==
    { [rows |-> << Row(<<Entry(0, 8), Entry(1, 8), Entry(2, 8)>>),
                   Row(<<Entry(3, 8), Entry(4, 8)>>) >>,
       status |-> "Draft", submitted_at |-> NoTime, approved_at |-> NoTime,
       approved_by |-> None, rejected_at |-> NoTime, audit_trail |-> << >>,
       total_hours |-> 0],
      [rows |-> << >>,
       status |-> "Approved", submitted_at |-> 1, approved_at |-> 1,
       approved_by |-> "e1", rejected_at |-> NoTime,
       audit_trail |-> << [action |-> "Approved", user |-> "a1@example.com",
                           timestamp |-> 1] >>,
       total_hours |-> 99] }

\* The Timesheet payloads of Save (model_dump excludes the id).
Payloads ==
    { [user_id |-> u, week_start_date |-> w, rows |-> b.rows, status |-> b.status,
       submitted_at |-> b.submitted_at, approved_at |-> b.approved_at,
       approved_by |-> b.approved_by, rejected_at |-> b.rejected_at,
       audit_trail |-> b.audit_trail, total_hours |-> b.total_hours] :
      u \in TargetUserIds, w \in PayloadWeeks, b \in PayloadBodies }

\* -------------------------------------------------------------- state

VARIABLES
    timesheets,   \* db.timesheets: the documents, a document's _id is its index
    req,          \* the suspended requests: a bag of handler-local states
    clock,        \* the value datetime.now(timezone.utc) returns next
    admitted,     \* the number of requests received so far
    response      \* the response of the handler that finished last

vars == <<timesheets, req, clock, admitted, response>>

\* The _id values of the stored documents.
Ids == 1 .. Len(timesheets)

\* The ts_id values requests carry: every stored _id and one that is not stored.
TsIds == 1 .. (Len(timesheets) + 1)

Init ==
    /\ timesheets = << >>
    /\ req = EmptyBag
    /\ clock = 1
    /\ admitted = 0
    /\ response = [op |-> "none", result |-> "none"]

\* ------------------------------------------------------- pure helpers

\* current_user.role
Role(u) == Users[u].role

\* current_user.email
Email(u) == Users[u].email

RECURSIVE SumEntries(_, _)
\* The inner loop of save_timesheet: total += entry['hours'] for each entry.
SumEntries(entries, total) ==
    IF entries = << >> THEN total
    ELSE SumEntries(Tail(entries), total + Head(entries).hours)

RECURSIVE SumRows(_, _)
\* The outer loop of save_timesheet: for row in ts_dict['rows'].
SumRows(rows, total) ==
    IF rows = << >> THEN total
    ELSE SumRows(Tail(rows), SumEntries(Head(rows).entries, total))

\* total = 0, then the two loops.
ComputeTotal(rows) == SumRows(rows, 0)

\* find_one's result: None, or a document with its _id.
NotFound == [found |-> FALSE]

Found(i) == [found |-> TRUE, id |-> i, doc |-> timesheets[i]]

\* The _ids of the documents matching {"user_id", "week_start_date"}.
Matching(user_id, week) ==
    { i \in Ids : /\ timesheets[i].user_id = user_id
                  /\ timesheets[i].week_start_date = week }

\* The results db.timesheets.find_one({"user_id", "week_start_date"}) can
\* give: None, or one of the matching documents (no sort is given, so with
\* several matches the store chooses).
FindByWeek(user_id, week) ==
    IF Matching(user_id, week) = {} THEN {NotFound}
    ELSE { Found(i) : i \in Matching(user_id, week) }

\* db.timesheets.find_one({"_id": ObjectId(ts_id)}).
FindById(ts_id) == IF ts_id \in Ids THEN Found(ts_id) ELSE NotFound

\* IsLocked with the test for 'Approved' left out.
IsLockedSubmittedOnly(existing, u) ==
    /\ existing.found
    /\ existing.doc.status = "Submitted"
    /\ Role(u) = "Employee"

\* The lock test of save_timesheet.
IsLocked(existing, u) ==
    /\ existing.found
    /\ existing.doc.status \in {"Submitted", "Approved"}
    /\ Role(u) = "Employee"

\* The role test of approve_timesheet and reject_timesheet.
NotAuthorized(u) == Role(u) = "Employee"

\* The audit_entry dict the handlers build.
AuditEntry(action, u) == [action |-> action, user |-> Email(u), timestamp |-> clock]

\* SaveAuditTrail that writes the new entry alone, dropping the stored trail.
SaveAuditTrailReplaces(existing, u) ==
    << [action |-> IF existing.found THEN "Updated" ELSE "Created",
        user |-> Email(u), timestamp |-> clock] >>

\* SaveAuditTrail whose entry is Created also for an existing document.
SaveAuditTrailAlwaysCreated(existing, u) ==
    IF existing.found
    THEN existing.doc.audit_trail \o << AuditEntry("Created", u) >>
    ELSE << AuditEntry("Created", u) >>

\* action = "Created" if not existing else "Updated", and the trail written.
SaveAuditTrail(existing, u) ==
    IF existing.found
    THEN existing.doc.audit_trail \o << AuditEntry("Updated", u) >>
    ELSE << AuditEntry("Created", u) >>

\* SaveStatus without the reset of a rejected timesheet.
SaveStatusKeepsRejected(existing) ==
    IF existing.found THEN existing.doc.status ELSE "Draft"

\* The status save_timesheet writes.
SaveStatus(existing) ==
    IF existing.found
    THEN IF existing.doc.status = "Rejected" THEN "Draft" ELSE existing.doc.status
    ELSE "Draft"

\* TsDict that leaves the payload's total_hours in place.
TsDictKeepsPayloadTotal(payload, existing, u) ==
    [payload EXCEPT !.audit_trail = SaveAuditTrail(existing, u),
                    !.status = SaveStatus(existing)]

\* TsDict that, for a new key, leaves the payload's status and audit_trail
\* in place and appends the entry to the payload's trail.
TsDictKeepsPayloadStatus(payload, existing, u) ==
    [payload EXCEPT !.total_hours = ComputeTotal(payload.rows),
                    !.audit_trail = IF existing.found
                                    THEN SaveAuditTrail(existing, u)
                                    ELSE payload.audit_trail
                                           \o SaveAuditTrail(existing, u),
                    !.status = IF existing.found THEN SaveStatus(existing)
                               ELSE payload.status]

\* ts_dict as save_timesheet hands it to the store: the payload's dump with
\* total_hours, audit_trail and status overwritten.
TsDict(payload, existing, u) ==
    [payload EXCEPT !.total_hours = ComputeTotal(payload.rows),
                    !.audit_trail = SaveAuditTrail(existing, u),
                    !.status = SaveStatus(existing)]

\* SubmitSet without the submitted_at field.
SubmitSetKeepsSubmittedAt(doc, ts, u) ==
    [doc EXCEPT !.status = "Submitted",
                !.audit_trail = ts.doc.audit_trail \o << AuditEntry("Submitted", u) >>]

\* The $set of submit_timesheet applied to a document.
SubmitSet(doc, ts, u) ==
    [doc EXCEPT !.status = "Submitted",
                !.submitted_at = clock,
                !.audit_trail = ts.doc.audit_trail \o << AuditEntry("Submitted", u) >>]

\* ApproveSet without the approved_by field.
ApproveSetWithoutApprover(doc, ts, u) ==
    [doc EXCEPT !.status = "Approved",
                !.approved_at = clock,
                !.audit_trail = ts.doc.audit_trail \o << AuditEntry("Approved", u) >>]

\* The $set of approve_timesheet applied to a document.
ApproveSet(doc, ts, u) ==
    [doc EXCEPT !.status = "Approved",
                !.approved_at = clock,
                !.approved_by = u,
                !.audit_trail = ts.doc.audit_trail \o << AuditEntry("Approved", u) >>]

\* The $set of reject_timesheet applied to a document.
RejectSet(doc, ts, u) ==
    [doc EXCEPT !.status = "Rejected",
                !.rejected_at = clock,
                !.audit_trail = ts.doc.audit_trail \o << AuditEntry("Rejected", u) >>]

\* ------------------------------------------------------ step helpers

\* The API receives a request.
Admit ==
    /\ admitted < MaxRequests
    /\ BagCardinality(req) < MaxInFlight
    /\ admitted' = admitted + 1

\* The handler awaits its write with local state q.
Suspend(q) == req' = req (+) SetToBag({q})

\* The suspended handler q resumes.
Resume(q) == req' = req (-) SetToBag({q})

\* The handler returns or raises.
Respond(op, result) == response' = [op |-> op, result |-> result]

\* --------------------------------------------------------------- Save

\* save_timesheet up to its find_one and the lock test.
SaveFind(u, payload) ==
    /\ Admit
    /\ \E existing \in FindByWeek(payload.user_id, payload.week_start_date) :
         IF IsLocked(existing, u)
         THEN /\ Respond("save", "Locked")
              /\ UNCHANGED <<timesheets, req, clock>>
         ELSE /\ Suspend([pc |-> "save_write", user |-> u, payload |-> payload,
                          existing |-> existing])
              /\ UNCHANGED <<timesheets, clock, response>>

\* save_timesheet from the total to its update_one / insert_one.  ts_dict
\* holds every field of a document, so $set ts_dict replaces them all.
SaveWrite(q) ==
    /\ BagIn(q, req)
    /\ q.pc = "save_write"
    /\ LET ts_dict == TsDict(q.payload, q.existing, q.user)
       IN  timesheets' = IF q.existing.found
                         THEN [timesheets EXCEPT ![q.existing.id] = ts_dict]
                         ELSE Append(timesheets, ts_dict)
    /\ Resume(q)
    /\ clock' = clock + 1
    /\ Respond("save", "ok")
    /\ UNCHANGED admitted

\* ------------------------------------------------------------- Submit

\* SubmitFind without the 404 test: with no document ts.get(...) raises.
SubmitFindWithout404(u, ts_id) ==
    /\ Admit
    /\ LET ts == FindById(ts_id)
       IN  IF ~ts.found
           THEN /\ Respond("submit", "Error")
                /\ UNCHANGED <<timesheets, req, clock>>
           ELSE /\ Suspend([pc |-> "submit_write", user |-> u, ts_id |-> ts_id,
                            ts |-> ts])
                /\ UNCHANGED <<timesheets, clock, response>>

\* submit_timesheet up to its find_one and the 404.
SubmitFind(u, ts_id) ==
    /\ Admit
    /\ LET ts == FindById(ts_id)
       IN  IF ~ts.found
           THEN /\ Respond("submit", "NotFound")
                /\ UNCHANGED <<timesheets, req, clock>>
           ELSE /\ Suspend([pc |-> "submit_write", user |-> u, ts_id |-> ts_id,
                            ts |-> ts])
                /\ UNCHANGED <<timesheets, clock, response>>

\* SubmitWrite whose update reaches every document (an update_many with an
\* empty filter) instead of the one with the _id.
SubmitWriteUpdatesAll(q) ==
    /\ BagIn(q, req)
    /\ q.pc = "submit_write"
    /\ timesheets' = [i \in Ids |-> SubmitSet(timesheets[i], q.ts, q.user)]
    /\ Resume(q)
    /\ clock' = clock + 1
    /\ Respond("submit", "ok")
    /\ UNCHANGED admitted

\* submit_timesheet from the total_hours test to its update_one.  The test
\* `ts['total_hours'] < 40` has an empty body: both outcomes go on to the
\* same update_one.
SubmitWrite(q) ==
    /\ BagIn(q, req)
    /\ q.pc = "submit_write"
    /\ timesheets' = [timesheets EXCEPT ![q.ts_id] = SubmitSet(@, q.ts, q.user)]
    /\ Resume(q)
    /\ clock' = clock + 1
    /\ Respond("submit", "ok")
    /\ UNCHANGED admitted

\* ------------------------------------------------------------ Approve

\* ApproveFind with the find_one and its 404 ahead of the role test.
ApproveFindLooksUpFirst(u, ts_id) ==
    /\ Admit
    /\ LET ts == FindById(ts_id)
       IN  IF ~ts.found
           THEN /\ Respond("approve", "NotFound")
                /\ UNCHANGED <<timesheets, req, clock>>
           ELSE IF NotAuthorized(u)
           THEN /\ Respond("approve", "Forbidden")
                /\ UNCHANGED <<timesheets, req, clock>>
           ELSE /\ Suspend([pc |-> "approve_write", user |-> u, ts_id |-> ts_id,
                            ts |-> ts])
                /\ UNCHANGED <<timesheets, clock, response>>

\* approve_timesheet up to its find_one: the role test, the 404.
ApproveFind(u, ts_id) ==
    /\ Admit
    /\ LET ts == FindById(ts_id)
       IN  IF NotAuthorized(u)
           THEN /\ Respond("approve", "Forbidden")
                /\ UNCHANGED <<timesheets, req, clock>>
           ELSE IF ~ts.found
           THEN /\ Respond("approve", "NotFound")
                /\ UNCHANGED <<timesheets, req, clock>>
           ELSE /\ Suspend([pc |-> "approve_write", user |-> u, ts_id |-> ts_id,
                            ts |-> ts])
                /\ UNCHANGED <<timesheets, clock, response>>

\* approve_timesheet's update_one.
ApproveWrite(q) ==
    /\ BagIn(q, req)
    /\ q.pc = "approve_write"
    /\ timesheets' = [timesheets EXCEPT ![q.ts_id] = ApproveSet(@, q.ts, q.user)]
    /\ Resume(q)
    /\ clock' = clock + 1
    /\ Respond("approve", "ok")
    /\ UNCHANGED admitted

\* ------------------------------------------------------------- Reject

\* RejectFind that refuses a document whose status is not Submitted.
RejectFindSubmittedOnly(u, ts_id) ==
    /\ Admit
    /\ LET ts == FindById(ts_id)
       IN  IF NotAuthorized(u)
           THEN /\ Respond("reject", "Forbidden")
                /\ UNCHANGED <<timesheets, req, clock>>
           ELSE IF ~ts.found
           THEN /\ Respond("reject", "Error")
                /\ UNCHANGED <<timesheets, req, clock>>
           ELSE IF ts.doc.status # "Submitted"
           THEN /\ Respond("reject", "BadRequest")
                /\ UNCHANGED <<timesheets, req, clock>>
           ELSE /\ Suspend([pc |-> "reject_write", user |-> u, ts_id |-> ts_id,
                            ts |-> ts])
                /\ UNCHANGED <<timesheets, clock, response>>

\* reject_timesheet up to its find_one.  There is no 404 test: with no
\* document ts is None and ts.get(...) raises before update_one is called.
RejectFind(u, ts_id) ==
    /\ Admit
    /\ LET ts == FindById(ts_id)
       IN  IF NotAuthorized(u)
           THEN /\ Respond("reject", "Forbidden")
                /\ UNCHANGED <<timesheets, req, clock>>
           ELSE IF ~ts.found
           THEN /\ Respond("reject", "Error")
                /\ UNCHANGED <<timesheets, req, clock>>
           ELSE /\ Suspend([pc |-> "reject_write", user |-> u, ts_id |-> ts_id,
                            ts |-> ts])
                /\ UNCHANGED <<timesheets, clock, response>>

\* reject_timesheet's update_one.
RejectWrite(q) ==
    /\ BagIn(q, req)
    /\ q.pc = "reject_write"
    /\ timesheets' = [timesheets EXCEPT ![q.ts_id] = RejectSet(@, q.ts, q.user)]
    /\ Resume(q)
    /\ clock' = clock + 1
    /\ Respond("reject", "ok")
    /\ UNCHANGED admitted

\* ---------------------------------------------------------- GetByWeek

\* GetByWeek whose access test compares the user_id parameter, not the
\* resolved target_user_id, with the caller's id.
GetByWeekTestsParameter(u, user_id, week) ==
    LET target_user_id == IF user_id # None THEN user_id ELSE u
    IN  /\ Admit
        /\ IF user_id # u /\ Role(u) = "Employee"
           THEN Respond("get", "Forbidden")
           ELSE \E ts \in FindByWeek(target_user_id, week) :
                  Respond("get", IF ts.found THEN "found" ELSE "empty")
        /\ UNCHANGED <<timesheets, req, clock>>

\* GetByWeek that raises a 404 when find_one gives None.
GetByWeekRaisesOnMissing(u, user_id, week) ==
    LET target_user_id == IF user_id # None THEN user_id ELSE u
    IN  /\ Admit
        /\ IF target_user_id # u /\ Role(u) = "Employee"
           THEN Respond("get", "Forbidden")
           ELSE \E ts \in FindByWeek(target_user_id, week) :
                  Respond("get", IF ts.found THEN "found" ELSE "NotFound")
        /\ UNCHANGED <<timesheets, req, clock>>

\* get_timesheet_by_week: user_id is optional.
GetByWeek(u, user_id, week) ==
    LET target_user_id == IF user_id # None THEN user_id ELSE u
    IN  /\ Admit
        /\ IF target_user_id # u /\ Role(u) = "Employee"
           THEN Respond("get", "Forbidden")
           ELSE \E ts \in FindByWeek(target_user_id, week) :
                  Respond("get", IF ts.found THEN "found" ELSE "empty")
        /\ UNCHANGED <<timesheets, req, clock>>

\* ------------------------------------------------------ specification

Next ==
    \/ \E u \in UserIds, payload \in Payloads : SaveFind(u, payload)
    \/ \E q \in BagToSet(req) : SaveWrite(q)
    \/ \E u \in UserIds, ts_id \in TsIds : SubmitFind(u, ts_id)
    \/ \E q \in BagToSet(req) : SubmitWrite(q)
    \/ \E u \in UserIds, ts_id \in TsIds : ApproveFind(u, ts_id)
    \/ \E q \in BagToSet(req) : ApproveWrite(q)
    \/ \E u \in UserIds, ts_id \in TsIds : RejectFind(u, ts_id)
    \/ \E q \in BagToSet(req) : RejectWrite(q)
    \/ \E u \in UserIds, user_id \in TargetUserIds \cup {None}, week \in Weeks :
         GetByWeek(u, user_id, week)

Spec == Init /\ [][Next]_vars

\* --------------------------------------------------- claim vocabulary

LockedStatuses == {"Submitted", "Approved"}

\* s is an initial segment of t.
IsPrefix(s, t) == Len(s) <= Len(t) /\ SubSeq(t, 1, Len(s)) = s

RECURSIVE SeqSum(_)
SeqSum(s) == IF s = << >> THEN 0 ELSE Head(s) + SeqSum(Tail(s))

\* The sum of hours over all day entries of all rows.
HoursOf(rows) ==
    SeqSum([i \in 1 .. Len(rows) |->
              SeqSum([j \in 1 .. Len(rows[i].entries) |-> rows[i].entries[j].hours])])

\* The last entry of a non-empty audit trail.
LastEntry(doc) == doc.audit_trail[Len(doc.audit_trail)]

\* The stored document a suspended Save read is still as the Save read it:
\* no other write reached it since the Save's find_one.
RunsOnStored(q) ==
    /\ q.existing.found
    /\ timesheets[q.existing.id] = q.existing.doc

\* The stored document a suspended Submit, Approve or Reject read is still
\* as the handler read it: no other write reached it since its find_one.
ReadIsCurrent(q) == timesheets[q.ts_id] = q.ts.doc

\* The trail new is the trail old followed by exactly one entry, of the
\* given action.
AppendsOne(old, new, action) ==
    /\ Len(new) = Len(old) + 1
    /\ SubSeq(new, 1, Len(old)) = old
    /\ new[Len(new)].action = action

\* The ts_id values that name no stored document.
MissingIds == TsIds \ Ids

\* A handler's Find step accepted the request: the handler went on to its
\* write and has raised nothing.
Accepted ==
    /\ BagCardinality(req') = BagCardinality(req) + 1
    /\ response' = response
    /\ timesheets' = timesheets

\* A handler refused the request with the given result and changed nothing.
Refused(op, result) ==
    /\ response' = [op |-> op, result |-> result]
    /\ timesheets' = timesheets
    /\ req' = req

\* ------------------------------------------------------------- claims

\* C1: in every reachable state the store holds at most one timesheet for
\* each (user_id, week_start_date) pair, also after Saves for the same new
\* key whose find_one and insert_one steps interleave.
C1_UniquePerKey ==
    \A i, j \in Ids :
      ( /\ timesheets[i].user_id = timesheets[j].user_id
        /\ timesheets[i].week_start_date = timesheets[j].week_start_date )
      => i = j

\* C2: every step leaves each stored timesheet's audit_trail a prefix of its
\* audit_trail after the step: no entry is removed or rewritten.
C2_AuditAppendOnly ==
    [][ \A i \in Ids :
          IsPrefix(timesheets[i].audit_trail, timesheets'[i].audit_trail) ]_vars

\* C3: in every reachable state every stored timesheet's total_hours is the
\* sum of the hours of all day entries of all its rows (0 with no rows).
C3_TotalIsSum ==
    \A i \in Ids : timesheets[i].total_hours = HoursOf(timesheets[i].rows)

\* C3 witness: a stored timesheet with rows summing to 40 beside one saved
\* from the payload that carried total_hours 99 and no rows.
C3_Witness ==
    \E i, j \in Ids :
      /\ Len(timesheets[i].rows) = 2 /\ timesheets[i].total_hours = 40
      /\ timesheets[j].approved_by = "e1" /\ timesheets[j].rows = << >>
      /\ timesheets[j].total_hours = 0

\* C4: a Save by an Employee whose payload names another user's id never
\* writes to the store.
C4_EmployeeCannotEditOthers ==
    [][ \A q \in BagToSet(req) :
          ( /\ SaveWrite(q)
            /\ Role(q.user) = "Employee"
            /\ q.payload.user_id # q.user )
          => timesheets' = timesheets ]_vars

\* C5: a Save that finds the key's stored record Submitted or Approved is
\* refused with Locked and changes nothing when the actor is an Employee,
\* and is accepted when the actor is a Manager or Admin; the accepted Save,
\* run on the record as stored, responds ok and leaves the stored status as
\* it was.
C5_LockedSave ==
    [][ /\ \A p \in Payloads :
             ( /\ Matching(p.user_id, p.week_start_date) # {}
               /\ \A i \in Matching(p.user_id, p.week_start_date) :
                    timesheets[i].status \in LockedStatuses )
             => \A u \in UserIds :
                  SaveFind(u, p)
                  => IF Role(u) = "Employee"
                     THEN /\ response' = [op |-> "save", result |-> "Locked"]
                          /\ timesheets' = timesheets
                          /\ req' = req
                     ELSE /\ BagCardinality(req') = BagCardinality(req) + 1
                          /\ response' = response
        /\ \A q \in BagToSet(req) :
             ( /\ q.pc = "save_write"
               /\ RunsOnStored(q)
               /\ Role(q.user) \in {"Manager", "Admin"}
               /\ timesheets[q.existing.id].status \in LockedStatuses
               /\ SaveWrite(q) )
             => /\ timesheets'[q.existing.id].status = timesheets[q.existing.id].status
                /\ response' = [op |-> "save", result |-> "ok"] ]_vars

\* C5 witness: an Employee's Save was refused with Locked while a locked
\* timesheet is stored.
C5_Witness ==
    /\ response = [op |-> "save", result |-> "Locked"]
    /\ \E i \in Ids : timesheets[i].status \in LockedStatuses

\* C5, the other half: a Manager's or Admin's Save went through on a locked
\* timesheet, which kept its status.
C5_WitnessOverride ==
    \E i \in Ids :
      /\ timesheets[i].status \in LockedStatuses
      /\ LastEntry(timesheets[i]).action = "Updated"
      /\ LastEntry(timesheets[i]).user \in {Email("m1"), Email("a1")}

\* C6: no write of an Employee's Save changes the rows, total_hours or
\* status of a timesheet whose stored status is Submitted or Approved.
C6_EmployeeLockUnderInterleaving ==
    [][ \A q \in BagToSet(req) :
          ( /\ SaveWrite(q)
            /\ Role(q.user) = "Employee" )
          => \A i \in Ids :
               timesheets[i].status \in LockedStatuses
               => /\ timesheets'[i].rows = timesheets[i].rows
                  /\ timesheets'[i].total_hours = timesheets[i].total_hours
                  /\ timesheets'[i].status = timesheets[i].status ]_vars

\* C7: a write of a Save changes a stored status only from Rejected to Draft.
C7_SaveFollowsStateMachine ==
    [][ \A q \in BagToSet(req) :
          SaveWrite(q)
          => \A i \in Ids :
               timesheets'[i].status # timesheets[i].status
               => /\ timesheets[i].status = "Rejected"
                  /\ timesheets'[i].status = "Draft" ]_vars

\* C8: the write of a Save for a key with no stored record adds one record
\* for that key, with status Draft and an audit_trail of exactly one entry,
\* Created by the saving identity's email, whatever the payload carried.
C8_NewKeyIsDraftCreated ==
    [][ \A q \in BagToSet(req) :
          ( /\ q.pc = "save_write"
            /\ Matching(q.payload.user_id, q.payload.week_start_date) = {}
            /\ SaveWrite(q) )
          => LET new == timesheets'[Len(timesheets) + 1]
             IN  /\ Len(timesheets') = Len(timesheets) + 1
                 /\ \A i \in Ids : timesheets'[i] = timesheets[i]
                 /\ new.user_id = q.payload.user_id
                 /\ new.week_start_date = q.payload.week_start_date
                 /\ new.status = "Draft"
                 /\ Len(new.audit_trail) = 1
                 /\ new.audit_trail[1].action = "Created"
                 /\ new.audit_trail[1].user = Email(q.user) ]_vars

\* C8 witness: a record saved from the payload that carried status Approved
\* and a one-entry audit_trail of its own is stored as a Draft with the one
\* Created entry.
C8_Witness ==
    \E i \in Ids :
      /\ timesheets[i].approved_by = "e1"
      /\ timesheets[i].status = "Draft"
      /\ Len(timesheets[i].audit_trail) = 1
      /\ timesheets[i].audit_trail[1].action = "Created"

\* C9: the write of a Save run on a stored Draft record with an audit_trail
\* of length n leaves the status Draft and the audit_trail of length n + 1,
\* the n entries as before and the last one Updated.
C9_DraftSaveAppendsUpdated ==
    [][ \A q \in BagToSet(req) :
          ( /\ q.pc = "save_write"
            /\ RunsOnStored(q)
            /\ timesheets[q.existing.id].status = "Draft"
            /\ SaveWrite(q) )
          => LET old == timesheets[q.existing.id]
                 new == timesheets'[q.existing.id]
             IN  /\ new.status = "Draft"
                 /\ Len(new.audit_trail) = Len(old.audit_trail) + 1
                 /\ SubSeq(new.audit_trail, 1, Len(old.audit_trail)) = old.audit_trail
                 /\ LastEntry(new).action = "Updated"
                 /\ response' = [op |-> "save", result |-> "ok"] ]_vars

\* C9 witness: a key saved and saved again: Draft, two entries, Created
\* then Updated.
C9_Witness ==
    \E i \in Ids :
      /\ timesheets[i].status = "Draft"
      /\ Len(timesheets[i].audit_trail) = 2
      /\ timesheets[i].audit_trail[1].action = "Created"
      /\ timesheets[i].audit_trail[2].action = "Updated"

\* C10: a Save that finds the key's stored record Rejected is accepted for
\* every role, and its write, run on the record as stored, sets the status
\* to Draft and appends one Updated entry.
C10_RejectedSaveReopens ==
    [][ /\ \A p \in Payloads :
             ( /\ Matching(p.user_id, p.week_start_date) # {}
               /\ \A i \in Matching(p.user_id, p.week_start_date) :
                    timesheets[i].status = "Rejected" )
             => \A u \in UserIds :
                  SaveFind(u, p)
                  => /\ BagCardinality(req') = BagCardinality(req) + 1
                     /\ response' = response
        /\ \A q \in BagToSet(req) :
             ( /\ q.pc = "save_write"
               /\ RunsOnStored(q)
               /\ timesheets[q.existing.id].status = "Rejected"
               /\ SaveWrite(q) )
             => LET old == timesheets[q.existing.id]
                    new == timesheets'[q.existing.id]
                IN  /\ new.status = "Draft"
                    /\ Len(new.audit_trail) = Len(old.audit_trail) + 1
                    /\ SubSeq(new.audit_trail, 1, Len(old.audit_trail)) = old.audit_trail
                    /\ LastEntry(new).action = "Updated"
                    /\ LastEntry(new).user = Email(q.user)
                    /\ response' = [op |-> "save", result |-> "ok"] ]_vars

\* C10 witness: an Employee's Save reopened a rejected timesheet: Draft, the
\* Rejected entry followed by the Employee's Updated entry.
C10_Witness ==
    \E i \in Ids :
      LET trail == timesheets[i].audit_trail
      IN  /\ timesheets[i].status = "Draft"
          /\ Len(trail) >= 2
          /\ trail[Len(trail) - 1].action = "Rejected"
          /\ trail[Len(trail)].action = "Updated"
          /\ trail[Len(trail)].user = Email("e1")

\* C11: a Submit of a stored record is accepted whatever its total_hours,
\* below 40 included; its write on a record whose stored status is Draft
\* sets the status to Submitted and submitted_at to a non-null value, leaves
\* rows, total_hours, user_id and week_start_date as they were and responds
\* ok; run on the record as stored, it appends exactly one Submitted entry
\* after the unchanged previous entries.
C11_SubmitDraft ==
    [][ /\ \A ts_id \in Ids, u \in UserIds : SubmitFind(u, ts_id) => Accepted
        /\ \A q \in BagToSet(req) :
             ( /\ q.pc = "submit_write"
               /\ timesheets[q.ts_id].status = "Draft"
               /\ SubmitWrite(q) )
             => LET old == timesheets[q.ts_id]
                    new == timesheets'[q.ts_id]
                IN  /\ new.status = "Submitted"
                    /\ new.submitted_at # NoTime
                    /\ new.rows = old.rows
                    /\ new.total_hours = old.total_hours
                    /\ new.user_id = old.user_id
                    /\ new.week_start_date = old.week_start_date
                    /\ response' = [op |-> "submit", result |-> "ok"]
                    /\ ReadIsCurrent(q)
                       => AppendsOne(old.audit_trail, new.audit_trail, "Submitted") ]_vars

\* C11 witness: a Draft with a total below 40 was submitted: Submitted, a
\* submitted_at, Created followed by Submitted.
C11_Witness ==
    \E i \in Ids :
      /\ timesheets[i].status = "Submitted"
      /\ timesheets[i].total_hours < 40
      /\ timesheets[i].submitted_at # NoTime
      /\ Len(timesheets[i].audit_trail) = 2
      /\ timesheets[i].audit_trail[1].action = "Created"
      /\ timesheets[i].audit_trail[2].action = "Submitted"
      /\ response = [op |-> "submit", result |-> "ok"]

\* C11, the other side of the threshold: a Draft with a total of 40 was
\* submitted.
C11_WitnessFullWeek ==
    \E i \in Ids :
      /\ timesheets[i].status = "Submitted"
      /\ timesheets[i].total_hours >= 40
      /\ Len(timesheets[i].audit_trail) = 2
      /\ timesheets[i].audit_trail[2].action = "Submitted"

\* C12: the write of a Submit by an Employee who is not the owning user of
\* the record, run on the record as stored, does not change the record.
C12_SubmitGuardedByIdentity ==
    [][ \A q \in BagToSet(req) :
          ( /\ q.pc = "submit_write"
            /\ ReadIsCurrent(q)
            /\ Role(q.user) = "Employee"
            /\ timesheets[q.ts_id].user_id # q.user
            /\ SubmitWrite(q) )
          => timesheets'[q.ts_id] = timesheets[q.ts_id] ]_vars

\* C13: an Approve or a Reject by an Employee is refused with Forbidden and
\* changes nothing, for every ts_id: that of a stored record in any status
\* and one that names no record; no suspended Approve or Reject is an
\* Employee's.
C13_EmployeeForbidden ==
    [][ /\ \A u \in UserIds :
             Role(u) = "Employee"
             => \A ts_id \in TsIds :
                  /\ ApproveFind(u, ts_id) => Refused("approve", "Forbidden")
                  /\ RejectFind(u, ts_id) => Refused("reject", "Forbidden")
        /\ \A q \in BagToSet(req') :
             q.pc \in {"approve_write", "reject_write"} => Role(q.user) # "Employee" ]_vars

\* C13 witness: an Approve was refused with Forbidden while a Submitted
\* record is stored.
C13_Witness ==
    /\ response = [op |-> "approve", result |-> "Forbidden"]
    /\ \E i \in Ids : timesheets[i].status = "Submitted"

\* C13, the missing record: a Reject was refused with Forbidden while the
\* store is empty.
C13_WitnessMissing ==
    /\ response = [op |-> "reject", result |-> "Forbidden"]
    /\ timesheets = << >>

\* C14: the write of an Approve by a Manager or Admin on a stored record
\* sets the status to Approved, approved_at to a non-null value and
\* approved_by to the approving identity's id, leaves rows and total_hours
\* as they were and responds ok; run on the record as stored, it appends
\* exactly one Approved entry after the unchanged previous entries.
C14_ApproveSets ==
    [][ \A q \in BagToSet(req) :
          ( /\ q.pc = "approve_write"
            /\ Role(q.user) \in {"Manager", "Admin"}
            /\ ApproveWrite(q) )
          => LET old == timesheets[q.ts_id]
                 new == timesheets'[q.ts_id]
             IN  /\ new.status = "Approved"
                 /\ new.approved_at # NoTime
                 /\ new.approved_by = q.user
                 /\ new.rows = old.rows
                 /\ new.total_hours = old.total_hours
                 /\ response' = [op |-> "approve", result |-> "ok"]
                 /\ ReadIsCurrent(q)
                    => /\ AppendsOne(old.audit_trail, new.audit_trail, "Approved")
                       /\ LastEntry(new).user = Email(q.user) ]_vars

\* C14 witness: a Manager approved a submitted timesheet: Approved, an
\* approved_at, approved_by the Manager, the last entry Approved.
C14_Witness ==
    \E i \in Ids :
      /\ timesheets[i].status = "Approved"
      /\ timesheets[i].approved_at # NoTime
      /\ timesheets[i].approved_by = "m1"
      /\ Len(timesheets[i].audit_trail) = 3
      /\ timesheets[i].audit_trail[2].action = "Submitted"
      /\ timesheets[i].audit_trail[3].action = "Approved"
      /\ timesheets[i].audit_trail[3].user = Email("m1")

\* C15: a Reject by a Manager or Admin with a ts_id that names no stored
\* record responds ok and leaves the store as it was.
C15_RejectMissingIsNoOp ==
    [][ \A u \in UserIds :
          Role(u) \in {"Manager", "Admin"}
          => \A ts_id \in MissingIds :
               RejectFind(u, ts_id)
               => /\ response' = [op |-> "reject", result |-> "ok"]
                  /\ timesheets' = timesheets ]_vars

C16_WitnessApprove ==
    response = [op |-> "approve", result |-> "NotFound"]

\* C17: a GetByWeek by an Employee whose target user id (the user_id given,
\* or the caller's own id when none is given) is not the caller's id is
\* refused with Forbidden, with or without a stored record for the key; a
\* GetByWeek by the target user, a Manager or an Admin is not Forbidden.
C17_GetByWeekAccess ==
    [][ \A u \in UserIds, user_id \in TargetUserIds \cup {None}, week \in Weeks :
          ( /\ response'.op = "get"
            /\ GetByWeek(u, user_id, week) )
          => LET target == IF user_id = None THEN u ELSE user_id
             IN  IF Role(u) = "Employee" /\ target # u
                 THEN Refused("get", "Forbidden")
                 ELSE response'.result # "Forbidden" ]_vars

\* C17 witness: a GetByWeek was refused with Forbidden while another user's
\* record is stored.
C17_Witness ==
    /\ response = [op |-> "get", result |-> "Forbidden"]
    /\ \E i \in Ids : timesheets[i].user_id = "m1"

\* C17, no record: a GetByWeek was refused with Forbidden while the store
\* is empty.
C17_WitnessNoRecord ==
    /\ response = [op |-> "get", result |-> "Forbidden"]
    /\ timesheets = << >>

\* C18: a GetByWeek by the target user, a Manager or an Admin for a key with
\* no stored record gives the empty outcome, and no GetByWeek changes the
\* store, whatever its outcome.
C18_GetByWeekEmpty ==
    [][ \A u \in UserIds, user_id \in TargetUserIds \cup {None}, week \in Weeks :
          ( /\ response'.op = "get"
            /\ GetByWeek(u, user_id, week) )
          => LET target == IF user_id = None THEN u ELSE user_id
             IN  /\ timesheets' = timesheets
                 /\ req' = req
                 /\ ( /\ Role(u) \in {"Manager", "Admin"} \/ target = u
                      /\ \A i \in Ids : \/ timesheets[i].user_id # target
                                         \/ timesheets[i].week_start_date # week )
                    => response' = [op |-> "get", result |-> "empty"] ]_vars

\* C18 witness: a GetByWeek gave the empty outcome while a record is stored
\* (for another key).
C18_Witness ==
    /\ response = [op |-> "get", result |-> "empty"]
    /\ timesheets # << >>

\* C19: an Approve or a Reject by a Manager or Admin of a stored record is
\* accepted in every stored status; the write of the Approve sets the
\* status Approved, the write of the Reject sets it Rejected, and both
\* respond ok.
C19_RoleAloneGuards ==
    [][ /\ \A u \in UserIds :
             Role(u) \in {"Manager", "Admin"}
             => \A ts_id \in Ids :
                  /\ ApproveFind(u, ts_id) => Accepted
                  /\ RejectFind(u, ts_id) => Accepted
        /\ \A q \in BagToSet(req) :
             /\ (q.pc = "approve_write" /\ ApproveWrite(q))
                => /\ timesheets'[q.ts_id].status = "Approved"
                   /\ response' = [op |-> "approve", result |-> "ok"]
             /\ (q.pc = "reject_write" /\ RejectWrite(q))
                => /\ timesheets'[q.ts_id].status = "Rejected"
                   /\ response' = [op |-> "reject", result |-> "ok"] ]_vars

\* C19 witness: a Draft was approved and the Approved record rejected:
\* neither was Submitted.
C19_Witness ==
    \E i \in Ids :
      /\ timesheets[i].status = "Rejected"
      /\ timesheets[i].submitted_at = NoTime
      /\ Len(timesheets[i].audit_trail) = 3
      /\ timesheets[i].audit_trail[1].action = "Created"
      /\ timesheets[i].audit_trail[2].action = "Approved"
      /\ timesheets[i].audit_trail[3].action = "Rejected"
      /\ response = [op |-> "reject", result |-> "ok"]

\* C20: the write of a Submit run on a record as stored whose status is
\* Submitted or Approved leaves its status, submitted_at and audit_trail as
\* they were.
C20_SubmitOnlyFromDraftOrRejected ==
    [][ \A q \in BagToSet(req) :
          ( /\ q.pc = "submit_write"
            /\ ReadIsCurrent(q)
            /\ timesheets[q.ts_id].status \in LockedStatuses
            /\ SubmitWrite(q) )
          => /\ timesheets'[q.ts_id].status = timesheets[q.ts_id].status
             /\ timesheets'[q.ts_id].submitted_at = timesheets[q.ts_id].submitted_at
             /\ timesheets'[q.ts_id].audit_trail = timesheets[q.ts_id].audit_trail ]_vars

\* C21: the write of a Save leaves every stored timesheet of another
\* (user_id, week_start_date) key as it was, the write of a Submit, Approve
\* or Reject leaves every stored timesheet but the one with its ts_id as it
\* was, and the other steps leave them all as they were: a step changes at
\* most one stored timesheet.
C21_OtherRecordsUnchanged ==
    [][ /\ \A q \in BagToSet(req) :
             /\ (q.pc = "save_write" /\ SaveWrite(q))
                => \A i \in Ids :
                     ( \/ timesheets[i].user_id # q.payload.user_id
                       \/ timesheets[i].week_start_date # q.payload.week_start_date )
                     => timesheets'[i] = timesheets[i]
             /\ ( /\ q.pc \in {"submit_write", "approve_write", "reject_write"}
                  /\ SubmitWrite(q) \/ ApproveWrite(q) \/ RejectWrite(q) )
                => \A i \in Ids \ {q.ts_id} : timesheets'[i] = timesheets[i]
        /\ Cardinality({ i \in Ids : timesheets'[i] # timesheets[i] }) <= 1 ]_vars

\* C21 witness: two timesheets of different keys are stored; the second was
\* submitted after both were saved, and the first is as its Save left it.
C21_Witness ==
    /\ Len(timesheets) = 2
    /\ timesheets[1].user_id # timesheets[2].user_id
    /\ timesheets[1].status = "Draft"
    /\ Len(timesheets[1].audit_trail) = 1
    /\ timesheets[1].submitted_at = NoTime
    /\ timesheets[2].status = "Submitted"
    /\ response = [op |-> "submit", result |-> "ok"]

\* C22: in every reachable state a stored timesheet with status Submitted
\* has a non-null submitted_at and one with status Approved has a non-null
\* approved_at and a non-null approved_by, also after the Save of a Manager
\* or Admin on a Submitted or Approved record with a payload that leaves
\* these fields unset.
C22_StatusHasTimestamps ==
    \A i \in Ids :
      /\ timesheets[i].status = "Submitted" => timesheets[i].submitted_at # NoTime
      /\ timesheets[i].status = "Approved"
         => /\ timesheets[i].approved_at # NoTime
            /\ timesheets[i].approved_by # None

\* C23: in every reachable state every stored audit_trail is non-empty, its
\* first entry is Created and none of its later entries is.
C23_TrailStartsCreated ==
    \A i \in Ids :
      LET trail == timesheets[i].audit_trail
      IN  /\ trail # << >>
          /\ trail[1].action = "Created"
          /\ \A k \in 2 .. Len(trail) : trail[k].action # "Created"

\* C23 witness: a timesheet saved from the payload that carried an
\* audit_trail of its own, saved again and submitted: Created, Updated,
\* Submitted.
C23_Witness ==
    \E i \in Ids :
      /\ timesheets[i].approved_by = "e1"
      /\ Len(timesheets[i].audit_trail) = 3
      /\ timesheets[i].audit_trail[1].action = "Created"
      /\ timesheets[i].audit_trail[2].action = "Updated"
      /\ timesheets[i].audit_trail[3].action = "Submitted"

====
